---- MODULE Spec2Model ----
(***************************************************************************)
(* Model of the LimeSurvey RemoteControl 2 client: lsrc2.Session           *)
(* (src/lsrc2/session.py) and its older variant limesurvey.LimeSurveySession*)
(* (src/limesurvey/__init__.py).                                           *)
(*                                                                         *)
(* Spec     : sessions are created, used and closed one call at a time;    *)
(*            every call is one action, its server response is an input.   *)
(* SpecConc : threads interleave inside _generate_request_id.              *)
(***************************************************************************)
EXTENDS Integers, Sequences, FiniteSets, TLC

VARIABLES request_id, issued, sessions, last, pc, tmp

vars == <<request_id, issued, sessions, last, pc, tmp>>

-----------------------------------------------------------------------------
(* Bounds of the model.                                                    *)

\* requests built, over both classes, before the model stops building more
\* (SpecConc: ids taken per class before the threads stop)
MaxRequests == 4

(* Program constants.                                                      *)

\* 'code': -32099, implementation-defined error in JSON-RPC
ImplementationDefinedError == -32099
\* 'code': -32500, application error in XML-RPC
ApplicationError == -32500

Classes == {"Session", "LimeSurveySession"}
Objs == {1, 2}
Threads == {1, 2}

-----------------------------------------------------------------------------
(* JSON values as Python sees them after response.json(): None, a str, a   *)
(* list or a dict.  Every value carries all four fields so that any two    *)
(* values can be compared.                                                 *)

JNull == [kind |-> "null", str |-> "", list |-> <<>>, map |-> {}]
JStr(s) == [kind |-> "str", str |-> s, list |-> <<>>, map |-> {}]
JList(l) == [kind |-> "list", str |-> "", list |-> l, map |-> {}]
\* a dict is its set of <<key, value>> items
JDict(m) == [kind |-> "dict", str |-> "", list |-> <<>>, map |-> m]

\* the JSON-RPC error member: None or {'code': c, 'message': m}
NoError == [kind |-> "null", code |-> 0, message |-> ""]
MkError(c, m) == [kind |-> "dict", code |-> c, message |-> m]

\* the status LSRC2 sends for an empty survey
NoTokensFound == "No Tokens found"

\* the fixed diagnostics of the dict-without-status branches
MsgGetSessionKey == "JSON-RPC function \"get_session_key\" returned a dictionnary, expected a string"
MsgParticipants == "JSON-RPC function \"participants\" returned a dictionnary, expected a list"
MsgExportResponses == "JSON-RPC function \"export_responses\" returned a dictionnary, expected a Base64-encoded string"

\* 'status' in responses
HasKey(v, k) == \E it \in v.map : it[1] = k
\* responses['status'] of a dict that has the key
Lookup(v, k) == (CHOOSE it \in v.map : it[1] = k)[2]

\* v[k] with a str key as Python evaluates it: a dict yields the value or
\* KeyError; None, str and list are not subscriptable by a str: TypeError
Subscript(v, k) ==
    IF v.kind = "dict"
    THEN IF HasKey(v, k) THEN [exc |-> "", val |-> Lookup(v, k)]
                         ELSE [exc |-> "KeyError", val |-> ""]
    ELSE [exc |-> "TypeError", val |-> ""]

-----------------------------------------------------------------------------
(* What a call hands to its caller: a returned (result, error) pair or a   *)
(* raised exception.                                                       *)

Return(r, e) == [kind |-> "returned", exc |-> "", result |-> r, error |-> e]
Raise(x) == [kind |-> "raised", exc |-> x, result |-> JNull, error |-> NoError]
NoCall == [kind |-> "none", exc |-> "", result |-> JNull, error |-> NoError]

\* Both modules import requests, json and logging only: the name `logger`
\* that the handlers call is bound nowhere.
LoggerDefined == FALSE

\* logger.error(...): a NameError unless the name is bound; `rest` is what
\* the handler goes on to do
logger_error(rest) == IF LoggerDefined THEN rest ELSE Raise("NameError")

-----------------------------------------------------------------------------
(* RPC envelope builder.                                                   *)

\* _generate_request_id run without interruption: the class counter is
\* incremented, then read back as the id
\* the bug of handing out the next number without storing it
Session_generate_request_id_not_stored(counter) ==
    [counter |-> counter, id |-> counter + 1]

Session_generate_request_id(counter) ==
    [counter |-> counter + 1, id |-> counter + 1]

LimeSurveySession_generate_request_id(counter) ==
    [counter |-> counter + 1, id |-> counter + 1]

generate_request_id(c, counter) ==
    IF c = "Session" THEN Session_generate_request_id(counter)
                     ELSE LimeSurveySession_generate_request_id(counter)

-----------------------------------------------------------------------------
(* Transport adapter.  A response is what session.post(...).json() gives,  *)
(* or no response at all when the HTTP collaborator raises.                *)

Results ==
    { JList(<<"row">>), JStr("OK"), JNull,
      JDict({<<"status", NoTokensFound>>}),
      JDict({<<"status", "No tokens found">>}),
      JDict({<<"status", "Invalid session key">>}),
      JDict({<<"foo", "bar">>}) }

Errors == { NoError, MkError(-32602, "Invalid params") }

NoResponse == [arrives |-> FALSE, id |-> 0, result |-> JNull, error |-> NoError]

\* the responses a request with id `id` can meet: none, the echo of its id
\* with any result and error, or a response that carries the id of the
\* request before it
Responses(id) ==
    {NoResponse}
    \cup [arrives : {TRUE}, id : {id}, result : Results, error : Errors]
    \cup [arrives : {TRUE}, id : {id - 1},
          result : {JStr("OK"), JDict({<<"status", NoTokensFound>>})},
          error : Errors]

\* the bug of a transport adapter that does not compare the ids
Session_post_unchecked(id, resp) ==
    IF ~resp.arrives THEN Raise("ConnectionError")
    ELSE Return(resp.result, resp.error)

\* the bug of a transport adapter that reports an error only when the result
\* is null
Session_post_drops_error(id, resp) ==
    IF ~resp.arrives THEN Raise("ConnectionError")
    ELSE IF resp.id # id THEN Raise("AssertionError")
    ELSE Return(resp.result,
                IF resp.result = JNull THEN resp.error ELSE NoError)

Session_post(id, resp) ==
    IF ~resp.arrives THEN Raise("ConnectionError")
    ELSE IF resp.id # id THEN Raise("AssertionError")
    ELSE Return(resp.result, resp.error)

LimeSurveySession_post(id, resp) ==
    IF ~resp.arrives THEN Raise("ConnectionError")
    ELSE IF resp.id # id THEN Raise("AssertionError")
    ELSE Return(resp.result, resp.error)

-----------------------------------------------------------------------------
(* Response normalizer and endpoint facade of lsrc2.Session.  `p` is what  *)
(* _post gave: an exception of _post propagates through every handler.     *)

\* returns the key; the error member of the outcome is the local `error`
Session_get_session_key(p) ==
    IF p.kind = "raised" THEN p
    ELSE LET s == Subscript(p.result, "status") IN
         IF s.exc # ""
         THEN IF p.error # NoError
              THEN logger_error(Return(JNull, p.error))
              ELSE Return(p.result, p.error)
         ELSE logger_error(
                  Return(JNull, MkError(ImplementationDefinedError, s.val)))

\* the bug of a release that reports the error member of its response
Session_release_session_key_checks_error(p) ==
    IF p.kind = "raised" THEN p
    ELSE IF p.error # NoError THEN Raise("RuntimeError")
    ELSE Return(JNull, NoError)

\* returns None
Session_release_session_key(p) ==
    IF p.kind = "raised" THEN p ELSE Return(JNull, NoError)

Session_surveys(p) == p

\* the bug of taking every status for the empty-survey marker
Session_participants_any_status_empty(p) ==
    IF p.kind = "raised" THEN p
    ELSE LET s == Subscript(p.result, "status") IN
         IF s.exc # ""
         THEN Return(p.result, p.error)
         ELSE IF p.error # NoError
              THEN logger_error(Return(JList(<<>>), NoError))
              ELSE Return(JList(<<>>), p.error)

Session_participants(p) ==
    IF p.kind = "raised" THEN p
    ELSE LET s == Subscript(p.result, "status") IN
         IF s.exc # ""
         THEN Return(p.result, p.error)
         ELSE IF s.val = NoTokensFound
              THEN IF p.error # NoError
                   THEN logger_error(Return(JList(<<>>), NoError))
                   ELSE Return(JList(<<>>), p.error)
              ELSE Return(JList(<<>>),
                          MkError(ImplementationDefinedError, s.val))

Session_participant_properties(p) == p

\* the bug of reusing the error code of participants()
Session_delete_participants_wrong_code(p) ==
    IF p.kind = "raised" THEN p
    ELSE IF p.result.kind = "dict"
         THEN IF HasKey(p.result, "status")
              THEN Return(JList(<<>>),
                          MkError(ImplementationDefinedError,
                                  Lookup(p.result, "status")))
              ELSE logger_error(
                       Return(JList(<<>>),
                              MkError(ApplicationError, MsgExportResponses)))
         ELSE Return(p.result, p.error)

Session_delete_participants(p) ==
    IF p.kind = "raised" THEN p
    ELSE IF p.result.kind = "dict"
         THEN IF HasKey(p.result, "status")
              THEN Return(JList(<<>>),
                          MkError(ApplicationError, Lookup(p.result, "status")))
              ELSE logger_error(
                       Return(JList(<<>>),
                              MkError(ApplicationError, MsgExportResponses)))
         ELSE Return(p.result, p.error)

-----------------------------------------------------------------------------
(* The same handlers in limesurvey.LimeSurveySession, which tests          *)
(* type(response) is dict and then 'status' in response.                   *)

LimeSurveySession_get_session_key(p) ==
    IF p.kind = "raised" THEN p
    ELSE IF p.result.kind = "dict"
         THEN IF HasKey(p.result, "status")
              THEN logger_error(
                       Return(JNull, MkError(ImplementationDefinedError,
                                             Lookup(p.result, "status"))))
              ELSE logger_error(
                       Return(JNull, MkError(ImplementationDefinedError,
                                             MsgGetSessionKey)))
         ELSE Return(p.result, p.error)

LimeSurveySession_release_session_key(p) ==
    IF p.kind = "raised" THEN p ELSE Return(JNull, NoError)

LimeSurveySession_surveys(p) == p

LimeSurveySession_participants(p) ==
    IF p.kind = "raised" THEN p
    ELSE IF p.result.kind = "dict"
         THEN IF HasKey(p.result, "status")
              THEN IF Lookup(p.result, "status") = NoTokensFound
                   THEN IF p.error # NoError
                        THEN logger_error(Return(JList(<<>>), NoError))
                        ELSE Return(JList(<<>>), p.error)
                   ELSE Return(JList(<<>>),
                               MkError(ImplementationDefinedError,
                                       Lookup(p.result, "status")))
              ELSE logger_error(
                       Return(JList(<<>>),
                              MkError(ImplementationDefinedError,
                                      MsgParticipants)))
         ELSE Return(p.result, p.error)

LimeSurveySession_participant_properties(p) == p

LimeSurveySession_delete_participants(p) ==
    IF p.kind = "raised" THEN p
    ELSE IF p.result.kind = "dict"
         THEN IF HasKey(p.result, "status")
              THEN Return(JList(<<>>),
                          MkError(ApplicationError, Lookup(p.result, "status")))
              ELSE logger_error(
                       Return(JList(<<>>),
                              MkError(ApplicationError, MsgExportResponses)))
         ELSE Return(p.result, p.error)

-----------------------------------------------------------------------------
(* Dispatch on the class of the object and the RPC method.                 *)

Facade == {"list_surveys", "list_participants",
           "get_participant_properties", "delete_participants"}
Methods == {"get_session_key", "release_session_key"} \cup Facade

post(c, id, resp) ==
    IF c = "Session" THEN Session_post(id, resp)
                     ELSE LimeSurveySession_post(id, resp)

handle(c, m, p) ==
    IF c = "Session"
    THEN CASE m = "get_session_key" -> Session_get_session_key(p)
           [] m = "release_session_key" -> Session_release_session_key(p)
           [] m = "list_surveys" -> Session_surveys(p)
           [] m = "list_participants" -> Session_participants(p)
           [] m = "get_participant_properties" -> Session_participant_properties(p)
           [] m = "delete_participants" -> Session_delete_participants(p)
    ELSE CASE m = "get_session_key" -> LimeSurveySession_get_session_key(p)
           [] m = "release_session_key" -> LimeSurveySession_release_session_key(p)
           [] m = "list_surveys" -> LimeSurveySession_surveys(p)
           [] m = "list_participants" -> LimeSurveySession_participants(p)
           [] m = "get_participant_properties" ->
                  LimeSurveySession_participant_properties(p)
           [] m = "delete_participants" -> LimeSurveySession_delete_participants(p)

-----------------------------------------------------------------------------
(* State.                                                                  *)
(*   request_id[c] : the class attribute __request_id of class c           *)
(*   issued[c]     : the ids stamped into the requests of class c, in order*)
(*   sessions[o]   : the object in slot o: its class, where it is in its   *)
(*                   life, its attribute key, and its with-block: "out" of *)
(*                   one, "in" one, or "unwinding" one that an exception   *)
(*                   is leaving                                            *)
(*   last          : the last call made: the request it sent, the response *)
(*                   it met and what the caller got; for the release of a  *)
(*                   with-block's exit also the exception that left the    *)
(*                   block, and in any case the exception that goes on to  *)
(*                   the enclosing code                                    *)
(*   pc, tmp       : SpecConc only: where each thread is inside            *)
(*                   _generate_request_id, and the value it loaded         *)

NoObject == [cls |-> "", state |-> "absent", key |-> JNull, scope |-> "out"]

NoException == [exc |-> "", origin |-> ""]

NoLast == [obj |-> 0, cls |-> "", method |-> "", id |-> 0, token |-> JNull,
           response |-> NoResponse, outcome |-> NoCall,
           block |-> "", propagated |-> NoException]

Init ==
    /\ request_id = [c \in Classes |-> 0]
    /\ issued = [c \in Classes |-> <<>>]
    /\ sessions = [o \in Objs |-> NoObject]
    /\ last = NoLast
    /\ pc = [t \in Threads |-> "idle"]
    /\ tmp = [t \in Threads |-> [cls |-> "", val |-> 0]]

\* the id the next request of class c gets
NextId(c) == generate_request_id(c, request_id[c]).id

\* what the caller of method m gets when its request meets resp
Outcome(c, m, resp) == handle(c, m, post(c, NextId(c), resp))

\* the bug of an __exit__ that returns True
exit_returns_true == TRUE

\* __exit__ ends with `return False  # re-raises the exception`: the
\* exception that left the block is not suppressed
exit_suppresses == FALSE

\* The exception that goes on to the enclosing code after a call whose
\* outcome is `out`, made while the exception `block` ("" for none) was
\* leaving a with-block: an exception raised by the call itself replaces the
\* one of the block; otherwise the one of the block is re-raised unless
\* __exit__ suppresses it.
Propagated(out, block) ==
    IF out.kind = "raised" THEN [exc |-> out.exc, origin |-> "call"]
    ELSE IF block # "" /\ ~exit_suppresses
         THEN [exc |-> block, origin |-> "block"]
         ELSE NoException

\* _request(method, params): the counter moves and the id is stamped into the
\* request, whose params[0] is `token`; then _post and the handler's own
\* code; `block` is the exception leaving the with-block whose exit makes
\* the call, "" for any other call
ExchangeIn(o, c, m, token, resp, block) ==
    LET g == generate_request_id(c, request_id[c]) IN
    /\ request_id["Session"] + request_id["LimeSurveySession"] < MaxRequests
    /\ request_id' = [request_id EXCEPT ![c] = g.counter]
    /\ issued' = [issued EXCEPT ![c] = Append(@, g.id)]
    /\ last' = [obj |-> o, cls |-> c, method |-> m, id |-> g.id,
                token |-> token, response |-> resp,
                outcome |-> Outcome(c, m, resp),
                block |-> block,
                propagated |-> Propagated(Outcome(c, m, resp), block)]

Exchange(o, c, m, token, resp) == ExchangeIn(o, c, m, token, resp, "")

\* a slot that holds no object the program still uses
Free(o) == sessions[o].state \in {"absent", "closed", "exited"}
                /\ sessions[o].scope = "out"

\* no exception is on its way out of a with-block: the program runs on
Running == \A o \in Objs : sessions[o].scope # "unwinding"

\* no object is inside a with-block (the blocks of the model do not nest)
NoBlock == \A o \in Objs : sessions[o].scope = "out"

\* the scope of the object in slot o after a call with outcome `out`: an
\* exception raised inside its with-block starts leaving the block
ScopeAfter(o, out) ==
    IF sessions[o].scope = "in" /\ out.kind = "raised" THEN "unwinding"
                                                        ELSE sessions[o].scope

-----------------------------------------------------------------------------
(* Session lifecycle of lsrc2.Session.                                     *)

\* Session(url, username, password): __init__ authenticates; when
\* _get_session_key raises, no object comes to exist
New(o) ==
    /\ Running
    /\ Free(o)
    /\ \E resp \in Responses(NextId("Session")) :
        /\ Exchange(o, "Session", "get_session_key", JStr("username"), resp)
        /\ LET out == Outcome("Session", "get_session_key", resp) IN
           sessions' = IF out.kind = "returned"
                       THEN [sessions EXCEPT ![o] = [cls |-> "Session",
                                                     state |-> "open",
                                                     key |-> out.result,
                                                     scope |-> "out"]]
                       ELSE sessions
    /\ UNCHANGED <<pc, tmp>>

\* the bug of a close() that does not clear the key
Closed_keeps_key(o, out, scope) ==
    IF out.kind = "returned"
    THEN [sessions EXCEPT ![o].state = "closed", ![o].scope = scope]
    ELSE [sessions EXCEPT ![o].scope = scope]

\* the objects after close() of the one in slot o, whose release call had
\* the outcome `out`: self.key = None is reached only when the release
\* returned
Closed(o, out, scope) ==
    IF out.kind = "returned"
    THEN [sessions EXCEPT ![o].state = "closed", ![o].key = JNull,
                          ![o].scope = scope]
    ELSE [sessions EXCEPT ![o].scope = scope]

\* close(): release the key, then self.key = None; an exception of the
\* release leaves the key as it was
Close(o) ==
    /\ Running
    /\ sessions[o].cls = "Session"
    /\ sessions[o].state \in {"open", "closed"}
    /\ \E resp \in Responses(NextId("Session")) :
        /\ Exchange(o, "Session", "release_session_key", sessions[o].key, resp)
        /\ LET out == Outcome("Session", "release_session_key", resp) IN
           sessions' = Closed(o, out, ScopeAfter(o, out))
    /\ UNCHANGED <<pc, tmp>>

\* `with session:` on an object that exists: __enter__ returns self
Enter(o) ==
    /\ Running
    /\ NoBlock
    /\ sessions[o].cls = "Session"
    /\ sessions[o].state \in {"open", "closed"}
    /\ sessions' = [sessions EXCEPT ![o].scope = "in"]
    /\ UNCHANGED <<request_id, issued, last, pc, tmp>>

\* the end of the with-block, reached at its last statement or by the
\* exception of the call before: __exit__ calls close() and returns False
Exit(o) ==
    /\ sessions[o].cls = "Session"
    /\ sessions[o].scope \in {"in", "unwinding"}
    /\ \E resp \in Responses(NextId("Session")) :
        /\ ExchangeIn(o, "Session", "release_session_key", sessions[o].key,
                      resp,
                      IF sessions[o].scope = "unwinding" THEN last.outcome.exc
                                                         ELSE "")
        /\ LET out == Outcome("Session", "release_session_key", resp) IN
           sessions' = Closed(o, out, "out")
    /\ UNCHANGED <<pc, tmp>>

-----------------------------------------------------------------------------
(* Session lifecycle of limesurvey.LimeSurveySession.                      *)

\* LimeSurveySession(url, username, password): no request, no key yet
LS_init(o) ==
    /\ Running
    /\ Free(o)
    /\ sessions' = [sessions EXCEPT ![o] = [cls |-> "LimeSurveySession",
                                            state |-> "constructed",
                                            key |-> JNull,
                                            scope |-> "out"]]
    /\ UNCHANGED <<request_id, issued, last, pc, tmp>>

\* __enter__: authenticates and sets self.key; when it raises, the block
\* is not entered
LS_enter(o) ==
    /\ Running
    /\ NoBlock
    /\ sessions[o].cls = "LimeSurveySession"
    /\ sessions[o].state = "constructed"
    /\ \E resp \in Responses(NextId("LimeSurveySession")) :
        /\ Exchange(o, "LimeSurveySession", "get_session_key",
                    JStr("username"), resp)
        /\ LET out == Outcome("LimeSurveySession", "get_session_key", resp) IN
           sessions' = IF out.kind = "returned"
                       THEN [sessions EXCEPT ![o].state = "entered",
                                             ![o].key = out.result,
                                             ![o].scope = "in"]
                       ELSE sessions
    /\ UNCHANGED <<pc, tmp>>

\* __exit__, reached at the last statement of the block or by the exception
\* of the call before: releases the key, leaves self.key as it is and
\* returns False
LS_exit(o) ==
    /\ sessions[o].cls = "LimeSurveySession"
    /\ sessions[o].state = "entered"
    /\ \E resp \in Responses(NextId("LimeSurveySession")) :
        ExchangeIn(o, "LimeSurveySession", "release_session_key",
                   sessions[o].key, resp,
                   IF sessions[o].scope = "unwinding" THEN last.outcome.exc
                                                      ELSE "")
    /\ sessions' = [sessions EXCEPT ![o].state = "exited",
                                    ![o].scope = "out"]
    /\ UNCHANGED <<pc, tmp>>

-----------------------------------------------------------------------------
(* Endpoint facade, both classes.                                          *)

\* A facade method of the object in slot o.  A LimeSurveySession that was
\* never entered has no attribute key: building params raises
\* AttributeError before a request id is taken.
Invoke(o, m) ==
    LET c == sessions[o].cls IN
    /\ Running
    /\ sessions[o].state \in {"open", "closed", "constructed", "entered", "exited"}
    /\ IF sessions[o].state = "constructed"
       THEN /\ last' = [obj |-> o, cls |-> c, method |-> m, id |-> 0,
                        token |-> JNull, response |-> NoResponse,
                        outcome |-> Raise("AttributeError"),
                        block |-> "",
                        propagated |-> Propagated(Raise("AttributeError"), "")]
            /\ UNCHANGED <<request_id, issued, sessions>>
       ELSE \E resp \in Responses(NextId(c)) :
                /\ Exchange(o, c, m, sessions[o].key, resp)
                /\ sessions' = [sessions EXCEPT
                                   ![o].scope = ScopeAfter(o, Outcome(c, m, resp))]
    /\ UNCHANGED <<pc, tmp>>

Surveys(o) == Invoke(o, "list_surveys")

Participants(o) == Invoke(o, "list_participants")

ParticipantProperties(o) == Invoke(o, "get_participant_properties")

DeleteParticipants(o) == Invoke(o, "delete_participants")

Next ==
    \E o \in Objs :
        \/ New(o)
        \/ Close(o)
        \/ Enter(o)
        \/ Exit(o)
        \/ LS_init(o)
        \/ LS_enter(o)
        \/ LS_exit(o)
        \/ Surveys(o)
        \/ Participants(o)
        \/ ParticipantProperties(o)
        \/ DeleteParticipants(o)

Spec == Init /\ [][Next]_vars

-----------------------------------------------------------------------------
(* Threads inside _generate_request_id.  The statement                     *)
(* `Session.__request_id += 1` loads the attribute, adds one and stores    *)
(* it; `return Session.__request_id` loads it again.  Another thread may   *)
(* run between any two of the three.                                       *)

InFlight(c) == {t \in Threads : pc[t] # "idle" /\ tmp[t].cls = c}

\* thread t enters _generate_request_id of class c and loads the counter
gen_load(t, c) ==
    /\ pc[t] = "idle"
    /\ Len(issued[c]) + Cardinality(InFlight(c)) < MaxRequests
    /\ pc' = [pc EXCEPT ![t] = "loaded"]
    /\ tmp' = [tmp EXCEPT ![t] = [cls |-> c, val |-> request_id[c]]]
    /\ UNCHANGED <<request_id, issued, sessions, last>>

\* thread t stores the value it loaded, plus one
gen_store(t) ==
    /\ pc[t] = "loaded"
    /\ request_id' = [request_id EXCEPT ![tmp[t].cls] = tmp[t].val + 1]
    /\ pc' = [pc EXCEPT ![t] = "stored"]
    /\ UNCHANGED <<issued, sessions, last, tmp>>

\* thread t reads the counter back and returns it as the id of its request
gen_return(t) ==
    /\ pc[t] = "stored"
    /\ issued' = [issued EXCEPT ![tmp[t].cls] = Append(@, request_id[tmp[t].cls])]
    /\ pc' = [pc EXCEPT ![t] = "idle"]
    /\ UNCHANGED <<request_id, sessions, last, tmp>>

NextConc ==
    \E t \in Threads :
        \/ \E c \in Classes : gen_load(t, c)
        \/ gen_store(t)
        \/ gen_return(t)

SpecConc == Init /\ [][NextConc]_vars

-----------------------------------------------------------------------------
(* Properties.                                                             *)

\* the last call sent a request and met a response that echoes its id
Matched ==
    /\ last.method \in Methods
    /\ last.response.arrives
    /\ last.response.id = last.id

\* the result of the last response is a mapping with a "status" key
StatusResult ==
    /\ last.response.result.kind = "dict"
    /\ HasKey(last.response.result, "status")

\* the result of the last response is a mapping without a "status" key
DictWithoutStatus ==
    /\ last.response.result.kind = "dict"
    /\ ~HasKey(last.response.result, "status")

StatusText == Lookup(last.response.result, "status")

\* C1: every facade call whose response echoes the request id returns a
\* (result, error) pair and raises nothing, whatever the result and error.
C1_FacadeNeverRaises ==
    (Matched /\ last.method \in Facade) => last.outcome.kind = "returned"

\* C2: participants() on {"status": "No Tokens found"} with a non-null
\* protocol error returns ([], null).
C2_EmptySurveyDiscardsProtocolError ==
    ( /\ Matched
      /\ last.method = "list_participants"
      /\ StatusResult
      /\ StatusText = NoTokensFound
      /\ last.response.error # NoError )
    => last.outcome = Return(JList(<<>>), NoError)

\* C3: participants() on {"status": S}: ([], null) when S is exactly
\* "No Tokens found" and the protocol error is null; ([], {-32099, S}) for
\* every other S, whatever the protocol error.
C3_ParticipantsStatus ==
    (Matched /\ last.method = "list_participants" /\ StatusResult)
    => /\ (StatusText = NoTokensFound /\ last.response.error = NoError)
              => last.outcome = Return(JList(<<>>), NoError)
       /\ StatusText # NoTokensFound
              => last.outcome =
                     Return(JList(<<>>),
                            MkError(ImplementationDefinedError, StatusText))

\* C3 witness: a status that differs from the marker only in case, sent with
\* a protocol error, came back as the -32099 error.
C3_Witness ==
    /\ Matched
    /\ last.method = "list_participants"
    /\ last.response.result = JDict({<<"status", "No tokens found">>})
    /\ last.response.error # NoError
    /\ last.outcome.kind = "returned"
    /\ last.outcome.error.code = ImplementationDefinedError

\* C4: get_session_key on {"status": X} raises nothing and yields a null key
\* and the error {-32099, X}.
C4_AuthStatusIsFailure ==
    (Matched /\ last.method = "get_session_key" /\ StatusResult)
    => last.outcome =
           Return(JNull, MkError(ImplementationDefinedError, StatusText))

\* C5: a mapping without "status" from get_session_key or list_participants
\* yields the error -32099 with the fixed diagnostic, and a null key or an
\* empty list; the mapping is never handed on.
C5_DictWithoutStatusIsFailure ==
    ( /\ Matched
      /\ last.method \in {"get_session_key", "list_participants"}
      /\ DictWithoutStatus )
    => \/ /\ last.method = "get_session_key"
          /\ last.outcome =
                 Return(JNull,
                        MkError(ImplementationDefinedError, MsgGetSessionKey))
       \/ /\ last.method = "list_participants"
          /\ last.outcome =
                 Return(JList(<<>>),
                        MkError(ImplementationDefinedError, MsgParticipants))

\* C6: delete_participants() on {"status": Z} returns ([], {-32500, Z}) for
\* any Z and any protocol error.
C6_DeleteStatus ==
    (Matched /\ last.method = "delete_participants" /\ StatusResult)
    => last.outcome =
           Return(JList(<<>>), MkError(ApplicationError, StatusText))

\* C6 witness: delete_participants met a status together with a protocol
\* error and returned.
C6_Witness ==
    /\ Matched
    /\ last.method = "delete_participants"
    /\ StatusResult
    /\ last.response.error # NoError
    /\ last.outcome.kind = "returned"

\* C7: surveys() and participant_properties() return the response's
\* (result, error) as it is, and so do participants() and
\* delete_participants() when the result is not a mapping.
C7_PassThrough ==
    ( /\ Matched
      /\ \/ last.method \in {"list_surveys", "get_participant_properties"}
         \/ /\ last.method \in {"list_participants", "delete_participants"}
            /\ last.response.result.kind # "dict" )
    => last.outcome = Return(last.response.result, last.response.error)

\* C7 witness: participants() met a list together with a protocol error and
\* returned a pair.
C7_Witness ==
    /\ Matched
    /\ last.method = "list_participants"
    /\ last.response.result.kind = "list"
    /\ last.response.error # NoError
    /\ last.outcome.kind = "returned"

\* C8: a response whose id differs from the request's aborts the call with
\* the assertion's exception, on every endpoint; a call that returns met the
\* id it sent.
C8_IdMismatchIsFatal ==
    /\ ( /\ last.method \in Methods
         /\ last.response.arrives
         /\ last.response.id # last.id )
       => last.outcome = Raise("AssertionError")
    /\ (last.method \in Methods /\ last.outcome.kind = "returned")
       => (last.response.arrives /\ last.response.id = last.id)

\* C8 witness: a release call met a response with another id, whose payload
\* the normalizer of participants() would have choked on.
C8_Witness ==
    /\ last.method = "release_session_key"
    /\ last.response.arrives
    /\ last.response.id # last.id
    /\ last.response.result.kind = "dict"
    /\ last.outcome.kind = "raised"

\* C9: the ids of the requests of one class, in the order they were built,
\* start at 1 and are strictly increasing, over all its objects.
C9_IdsStrictlyIncrease ==
    \A c \in Classes :
        /\ issued[c] # <<>> => issued[c][1] = 1
        /\ \A i, j \in 1..Len(issued[c]) : i < j => issued[c][i] < issued[c][j]

\* C9 witness: three requests of lsrc2.Session, over one object that was
\* closed and another that is open.
C9_Witness ==
    /\ Len(issued["Session"]) >= 3
    /\ \E o1, o2 \in Objs :
        /\ sessions[o1].cls = "Session" /\ sessions[o1].state = "closed"
        /\ sessions[o2].cls = "Session" /\ sessions[o2].state = "open"

\* C10: no two requests of one class ever get the same id, also when the
\* threads interleave inside _generate_request_id.
C10_IdsUnique ==
    \A c \in Classes :
        \A i, j \in 1..Len(issued[c]) : i # j => issued[c][i] # issued[c][j]

\* the step ends the with-block of the object in slot o
ExitStep(o) ==
    /\ sessions[o].scope \in {"in", "unwinding"}
    /\ sessions'[o].scope = "out"

\* the last call was the release call of close() on an lsrc2.Session
SessionRelease ==
    /\ last.cls = "Session"
    /\ last.method = "release_session_key"

\* C11 as claimed: when an exception leaves a with-block, the release call
\* is issued and that exception is what the caller gets afterwards.
C11_BlockExceptionReraised ==
    last.block # ""
    => /\ last.method = "release_session_key"
       /\ last.propagated = [exc |-> last.block, origin |-> "block"]

\* C11 (amended): leaving a with-block builds exactly one request, the
\* release_session_key of that object with its key, also when an exception
\* leaves the block; that exception is re-raised after the release when the
\* release call returns, and replaced by the release call's own exception
\* when the release call raises.
C11_ExitReleasesOnce ==
    [][ \A o \in Objs :
          ExitStep(o)
          => /\ Len(issued'[sessions[o].cls]) = Len(issued[sessions[o].cls]) + 1
             /\ \A d \in Classes \ {sessions[o].cls} : issued'[d] = issued[d]
             /\ last'.obj = o
             /\ last'.method = "release_session_key"
             /\ last'.token = sessions[o].key
             /\ sessions[o].scope = "in" => last'.block = ""
             /\ sessions[o].scope = "unwinding"
                => /\ last'.block = last.outcome.exc
                   /\ last'.block # ""
                   /\ last'.propagated =
                          IF last'.outcome.kind = "returned"
                          THEN [exc |-> last.outcome.exc, origin |-> "block"]
                          ELSE [exc |-> last'.outcome.exc, origin |-> "call"]
      ]_vars

\* C11 witness: a list_surveys call failed inside the with-block of an
\* lsrc2.Session, the release was sent with the live key and returned, and
\* the exception of the call went on to the caller.
C11_Witness ==
    /\ SessionRelease
    /\ last.block # ""
    /\ last.token.kind = "str"
    /\ last.outcome.kind = "returned"
    /\ last.propagated = [exc |-> last.block, origin |-> "block"]
    /\ sessions[last.obj].state = "closed"

\* C12 as claimed: close() never hands a failure of the release call to its
\* caller, and after it the key is null.
C12_CloseNeverPropagates ==
    SessionRelease
    => /\ last.outcome.kind = "returned"
       /\ sessions[last.obj].key = JNull

\* C12 (amended): close() ignores the result and error members of the
\* release response: when the response arrives with the request's id,
\* close() returns and the key is null, whatever the error member; when the
\* call itself fails (no response, another id) the exception leaves close()
\* and the key stays what it was.
C12_CloseIgnoresErrorMember ==
    SessionRelease
    => IF Matched
       THEN /\ last.outcome = Return(JNull, NoError)
            /\ sessions[last.obj].key = JNull
       ELSE /\ last.outcome.kind = "raised"
            /\ last.outcome.exc \in {"ConnectionError", "AssertionError"}
            /\ sessions[last.obj].key = last.token

\* C12 witness: the release of a live key met a response with a non-null
\* error member; close() returned and the key is null.
C12_Witness ==
    /\ SessionRelease
    /\ Matched
    /\ last.response.error # NoError
    /\ last.token # JNull
    /\ last.outcome.kind = "returned"
    /\ sessions[last.obj].state = "closed"
    /\ sessions[last.obj].key = JNull

\* C13 as claimed: a close() that follows a close() of the same
\* lsrc2.Session sends release_session_key with a null token.
C13_SecondCloseSendsNull ==
    [][ ( /\ SessionRelease
          /\ issued'["Session"] # issued["Session"]
          /\ last'.method = "release_session_key"
          /\ last'.obj = last.obj )
        => last'.token = JNull
      ]_vars

\* C13 (amended): every request an lsrc2.Session sends after authentication
\* carries its attribute key at that moment as params[0]: the result of
\* get_session_key from construction on, changed by nothing but a close()
\* that returns, which sets it to null; a close() that raises leaves it, so
\* the next close() sends it again.  A release with a null token fails only
\* if the call itself fails.
C13_TokenIsCurrentKey ==
    [][ issued'["Session"] # issued["Session"]
        => IF last'.method = "get_session_key"
           THEN last'.outcome.kind = "returned"
                => sessions'[last'.obj].key = last'.outcome.result
           ELSE /\ last'.token = sessions[last'.obj].key
                /\ sessions'[last'.obj].key =
                       IF /\ last'.method = "release_session_key"
                          /\ last'.outcome.kind = "returned"
                       THEN JNull
                       ELSE sessions[last'.obj].key
                /\ ( /\ last'.method = "release_session_key"
                     /\ last'.token = JNull
                     /\ last'.response.arrives
                     /\ last'.response.id = last'.id )
                   => last'.outcome.kind = "returned"
      ]_vars

\* C13 witness: a second close() of a closed lsrc2.Session sent
\* release_session_key with a null token and returned.
C13_Witness ==
    /\ SessionRelease
    /\ last.token = JNull
    /\ last.outcome.kind = "returned"
    /\ sessions[last.obj].state = "closed"
    /\ Len(issued["Session"]) >= 3

====
